---- MODULE Spec2Model ----
(***************************************************************************)
(* The resume editor of the Chrome extension popup                         *)
(* (src/unnamed/part_000, "ADVANCED EDITOR LOGIC", with the generate       *)
(* handler and the restore callback that share its state).                 *)
(*                                                                         *)
(* Strings are sequences of one-character strings, so that trimming and    *)
(* the HTML parser's treatment of interpolated text can be computed.       *)
(* JavaScript values are tagged records: [t |-> "undef"], [t |-> "str"],   *)
(* [t |-> "obj"] (contact), [t |-> "map"] (skills, insertion ordered),     *)
(* [t |-> "list"] (experience/projects/leadership) and the JSON values     *)
(* [t |-> "null"], [t |-> "num"], [t |-> "arr"] of an unknown section.     *)
(***************************************************************************)
EXTENDS Integers, Sequences, FiniteSets, TLC

\* ------------------------------------------------------------------ bounds
\* longest string drawn for a field of a persisted document
MaxStrLen == 2
\* most bullets drawn for an entry of a persisted document
MaxBullets == 2
\* most budgeted events in one run: a user edit of the view, a request
\* (generate, save) accepted, an edit click while another edit handler waits
\* for its storage read, an opening while an initialization timer is pending
MaxEvents == 2

\* ----------------------------------------------------------------- strings
Chars == {"a", " ", "\"", "\n"}

RECURSIVE StrsOfLen(_)
StrsOfLen(n) ==
  IF n = 0 THEN {<<>>}
  ELSE {Append(s, c) : s \in StrsOfLen(n - 1), c \in Chars}

StrsUpTo(n) == UNION {StrsOfLen(k) : k \in 0..n}

IsWs(c) == c \in {" ", "\n"}

RECURSIVE TrimLeft(_)
TrimLeft(s) ==
  IF s = <<>> THEN s
  ELSE IF IsWs(Head(s)) THEN TrimLeft(Tail(s)) ELSE s

RECURSIVE TrimRight(_)
TrimRight(s) ==
  IF s = <<>> THEN s
  ELSE IF IsWs(s[Len(s)]) THEN TrimRight(SubSeq(s, 1, Len(s) - 1)) ELSE s

\* String.prototype.trim
\* a trim that removes nothing
TrimNothing(s) == s

Trim(s) == TrimRight(TrimLeft(s))

\* a || b on strings (undefined is read as the empty string by StrOf)
OrStr(a, b) == IF a # <<>> THEN a ELSE b

\* item.key, with a missing key read as ''
StrOf(item, key) == IF key \in DOMAIN item THEN item[key] ELSE <<>>

\* ------------------------------------------------- the HTML parser on text
\* text.replace(/"/g, '&quot;')
EscapeQuot(s) == [i \in 1..Len(s) |-> IF s[i] = "\"" THEN "&quot;" ELSE s[i]]

\* character references are decoded in attribute values and in textareas
DecodeEntities(s) == [i \in 1..Len(s) |-> IF s[i] = "&quot;" THEN "\"" ELSE s[i]]

\* value="${s}": the attribute value ends at the first double quote of s
RECURSIVE BeforeQuote(_)
BeforeQuote(s) ==
  IF s = <<>> THEN s
  ELSE IF Head(s) = "\"" THEN <<>>
  ELSE <<Head(s)>> \o BeforeQuote(Tail(s))

NotNewline(c) == c # "\n"

\* the value of <input type="text" value="${s}">: the attribute value, with
\* newlines removed by the value sanitization of text inputs
InputValue(s) == SelectSeq(DecodeEntities(BeforeQuote(s)), NotNewline)

\* the value of <textarea>${s}</textarea>: one leading newline is dropped
TextareaValue(s) ==
  LET d == DecodeEntities(s)
  IN IF d # <<>> /\ Head(d) = "\n" THEN Tail(d) ELSE d

\* ------------------------------------------------------------------ values
Undef == [t |-> "undef"]
VStr(s) == [t |-> "str", s |-> s]
VObj(f) == [t |-> "obj", f |-> f]
VMap(kv) == [t |-> "map", kv |-> kv]
VList(items) == [t |-> "list", items |-> items]
JNull == [t |-> "null"]
JNum(n) == [t |-> "num", n |-> n]
JArr(items) == [t |-> "arr", items |-> items]

KnownSections == {"summary", "contact", "skills", "experience", "projects", "leadership"}
ListSections == {"experience", "projects", "leadership"}

\* obj[k] = v on an insertion-ordered object held as a sequence of pairs
ObjSet(kv, k, v) ==
  IF \E i \in 1..Len(kv) : kv[i].k = k
  THEN [i \in 1..Len(kv) |-> IF kv[i].k = k THEN [k |-> k, v |-> v] ELSE kv[i]]
  ELSE Append(kv, [k |-> k, v |-> v])

\* ------------------------------------------------------- JSON (unknown section)
\* The opaque value of an unknown section is modelled on the JSON values
\* null, non-negative integers and arrays of them.
DigitChars == <<"0", "1", "2", "3", "4", "5", "6", "7", "8", "9">>
IsDigit(c) == \E d \in 1..10 : DigitChars[d] = c
DigitVal(c) == (CHOOSE d \in 1..10 : DigitChars[d] = c) - 1

RECURSIVE NumText(_)
NumText(n) ==
  IF n < 10 THEN <<DigitChars[n + 1]>>
  ELSE NumText(n \div 10) \o <<DigitChars[(n % 10) + 1]>>

Spaces(n) == [i \in 1..n |-> " "]

\* JSON.stringify(v, null, 2) at indentation ind
RECURSIVE JsonText(_, _)
RECURSIVE JsonItems(_, _, _)
JsonItems(items, i, ind) ==
  IF i > Len(items) THEN <<>>
  ELSE Spaces(ind) \o JsonText(items[i], ind)
       \o (IF i < Len(items) THEN <<",", "\n">> ELSE <<"\n">>)
       \o JsonItems(items, i + 1, ind)

JsonText(v, ind) ==
  CASE v.t = "null" -> <<"n", "u", "l", "l">>
    [] v.t = "num" -> NumText(v.n)
    [] v.t = "arr" ->
         IF v.items = <<>> THEN <<"[", "]">>
         ELSE <<"[", "\n">> \o JsonItems(v.items, 1, ind + 2) \o Spaces(ind) \o <<"]">>
    \* `${JSON.stringify(undefined, null, 2)}` is the text "undefined"
    [] OTHER -> <<"u", "n", "d", "e", "f", "i", "n", "e", "d">>

JsonFail == [ok |-> FALSE, v |-> JNull, next |-> 0]

RECURSIVE SkipWs(_, _)
SkipWs(s, i) ==
  IF i <= Len(s) /\ IsWs(s[i]) THEN SkipWs(s, i + 1) ELSE i

RECURSIVE ScanDigits(_, _)
ScanDigits(s, i) ==
  IF i <= Len(s) /\ IsDigit(s[i]) THEN ScanDigits(s, i + 1) ELSE i

RECURSIVE NumVal(_, _, _)
NumVal(s, i, j) ==
  IF j < i THEN 0 ELSE 10 * NumVal(s, i, j - 1) + DigitVal(s[j])

RECURSIVE ParseValue(_, _)
RECURSIVE ParseElems(_, _, _)
ParseElems(s, i, acc) ==
  LET r == ParseValue(s, i)
      k == SkipWs(s, r.next)
  IN IF ~r.ok \/ k > Len(s) THEN JsonFail
     ELSE IF s[k] = "," THEN ParseElems(s, k + 1, Append(acc, r.v))
     ELSE IF s[k] = "]" THEN [ok |-> TRUE, v |-> JArr(Append(acc, r.v)), next |-> k + 1]
     ELSE JsonFail

ParseValue(s, i) ==
  LET j == SkipWs(s, i)
  IN IF j > Len(s) THEN JsonFail
     ELSE IF s[j] = "n"
       THEN IF j + 3 <= Len(s) /\ SubSeq(s, j, j + 3) = <<"n", "u", "l", "l">>
            THEN [ok |-> TRUE, v |-> JNull, next |-> j + 4]
            ELSE JsonFail
     ELSE IF s[j] = "0" THEN [ok |-> TRUE, v |-> JNum(0), next |-> j + 1]
     ELSE IF IsDigit(s[j])
       THEN LET e == ScanDigits(s, j)
            IN [ok |-> TRUE, v |-> JNum(NumVal(s, j, e - 1)), next |-> e]
     ELSE IF s[j] = "["
       THEN LET k == SkipWs(s, j + 1)
            IN IF k <= Len(s) /\ s[k] = "]"
               THEN [ok |-> TRUE, v |-> JArr(<<>>), next |-> k + 1]
               ELSE ParseElems(s, j + 1, <<>>)
     ELSE JsonFail

\* JSON.parse(s): [ok |-> FALSE] stands for the SyntaxError it throws
JsonParse(s) ==
  LET r == ParseValue(s, 1)
  IN IF r.ok /\ SkipWs(s, r.next) > Len(s) THEN [ok |-> TRUE, v |-> r.v]
     ELSE [ok |-> FALSE, v |-> JNull]

\* ------------------------------------------------------------------ the view
\* formContainer's content, as parseEditor queries it: the elements with an
\* id (texts), the .contact-input elements, and the .item-block elements
\* with their inputs by class and their .bullet-input textareas.
\* rendered is the section whose add button (and its template) the view holds.
View(rendered, texts, contact, blocks) ==
  [rendered |-> rendered, texts |-> texts, contact |-> contact, blocks |-> blocks]
NoTexts == [x \in {} |-> <<>>]
EmptyView == View("none", NoTexts, <<>>, <<>>)
Block(inputs, bullets) == [inputs |-> inputs, bullets |-> bullets]

ContactFields == <<"location", "email", "phone", "linkedin_url", "portfolio_url", "github">>

createBulletRow(text) == TextareaValue(EscapeQuot(text))

renderItemBlock(item, section) ==
  LET bullets == IF "bullets" \in DOMAIN item
                 THEN [i \in 1..Len(item.bullets) |-> createBulletRow(item.bullets[i])]
                 ELSE <<>>
      inputs ==
        IF section = "experience"
        THEN [c \in {"item-company", "item-role", "item-location", "item-dates"} |->
               InputValue(CASE c = "item-company" -> StrOf(item, "company")
                            [] c = "item-role" -> OrStr(StrOf(item, "role"), StrOf(item, "title"))
                            [] c = "item-location" -> StrOf(item, "location")
                            [] OTHER -> OrStr(StrOf(item, "dates"), StrOf(item, "date")))]
        ELSE IF section = "leadership"
        THEN [c \in {"item-org", "item-role", "item-location", "item-dates"} |->
               InputValue(CASE c = "item-org" -> StrOf(item, "organization")
                            [] c = "item-role" -> StrOf(item, "role")
                            [] c = "item-location" -> StrOf(item, "location")
                            [] OTHER -> StrOf(item, "dates"))]
        ELSE [c \in {"item-name", "item-tech", "item-dates"} |->
               InputValue(CASE c = "item-name" -> StrOf(item, "name")
                            [] c = "item-tech" -> StrOf(item, "tech")
                            [] OTHER -> OrStr(StrOf(item, "dates"), StrOf(item, "date")))]
  IN Block(inputs, bullets)

renderEditor(section, data) ==
  IF section = "summary"
  THEN View(section, [x \in {"edit_summary_text"} |->
               TextareaValue(IF data.t = "str" THEN data.s ELSE <<>>)], <<>>, <<>>)
  ELSE IF section = "contact"
  THEN LET obj == IF data.t = "obj" THEN data.f
                  ELSE [k \in {"location"} |-> IF data.t = "str" THEN data.s ELSE <<>>]
           val(key) ==
             LET v == StrOf(obj, key)
             IN IF key = "linkedin_url" THEN OrStr(v, StrOf(obj, "linkedin"))
                ELSE IF key = "portfolio_url" THEN OrStr(v, StrOf(obj, "portfolio"))
                ELSE v
       IN View(section, NoTexts,
               [i \in 1..Len(ContactFields) |->
                  [key |-> ContactFields[i], value |-> InputValue(val(ContactFields[i]))]],
               <<>>)
  ELSE IF section = "skills"
  THEN LET kv == IF data.t = "map" THEN data.kv ELSE <<>>
       IN View(section, NoTexts, <<>>,
               [i \in 1..Len(kv) |->
                  Block([c \in {"skill-category-input", "skill-values-input"} |->
                           IF c = "skill-category-input" THEN InputValue(kv[i].k)
                           ELSE TextareaValue(kv[i].v)], <<>>)])
  ELSE IF section \in ListSections
  THEN LET items == IF data.t = "list" THEN data.items ELSE <<>>
       IN View(section, NoTexts, <<>>, [i \in 1..Len(items) |-> renderItemBlock(items[i], section)])
  ELSE View(section, [x \in {"edit_raw_json"} |-> TextareaValue(JsonText(data, 0))], <<>>, <<>>)

\* ----------------------------------------------------------------- the parse
\* a filter that drops only the empty rows
NotEmpty(b) == Len(b) > 0

NotBlank(b) == Len(Trim(b)) > 0

\* the object built by inputs.forEach over the first n .contact-input elements
RECURSIVE contactData(_, _)
contactData(inputs, n) ==
  IF n = 0 THEN [k \in {} |-> <<>>]
  ELSE LET rest == contactData(inputs, n - 1)
           v == Trim(inputs[n].value)
       IN IF v # <<>>
          THEN [k \in DOMAIN rest \cup {inputs[n].key} |->
                  IF k = inputs[n].key THEN v ELSE rest[k]]
          ELSE rest

RECURSIVE newSkills(_, _, _)
newSkills(blocks, i, acc) ==
  IF i > Len(blocks) THEN acc
  ELSE LET b == blocks[i].inputs
       IN IF {"skill-category-input", "skill-values-input"} \subseteq DOMAIN b
          THEN newSkills(blocks, i + 1,
                         ObjSet(acc, b["skill-category-input"], b["skill-values-input"]))
          ELSE newSkills(blocks, i + 1, acc)

parseItem(block, section) ==
  LET getVal(sel) == StrOf(block.inputs, sel)
      bullets == SelectSeq(block.bullets, NotBlank)
  IN IF section = "experience"
     THEN [company |-> getVal("item-company"), role |-> getVal("item-role"),
           dates |-> getVal("item-dates"), location |-> getVal("item-location"),
           bullets |-> bullets]
     ELSE IF section = "leadership"
     THEN [organization |-> getVal("item-org"), role |-> getVal("item-role"),
           dates |-> getVal("item-dates"), location |-> getVal("item-location"),
           bullets |-> bullets]
     ELSE [name |-> getVal("item-name"), tech |-> getVal("item-tech"),
           dates |-> getVal("item-dates"), bullets |-> bullets]

\* a fallback that hands back an empty value instead of the stored one
ParseFallbackEmpty(section, doc) == JArr(<<>>)

\* return currentEditingData[section]
ParseFallback(section, doc) == doc[section]

\* parseEditor(section) on the view v; doc is currentEditingData, read by the
\* fallback branch
parseEditor(section, v, doc) ==
  IF section = "summary"
  THEN VStr(StrOf(v.texts, "edit_summary_text"))
  ELSE IF section = "contact"
  THEN VObj(contactData(v.contact, Len(v.contact)))
  ELSE IF section = "skills"
  THEN VMap(newSkills(v.blocks, 1, <<>>))
  ELSE IF section \in ListSections
  THEN VList([i \in 1..Len(v.blocks) |-> parseItem(v.blocks[i], section)])
  ELSE IF "edit_raw_json" \in DOMAIN v.texts
       THEN LET r == JsonParse(v.texts["edit_raw_json"])
            IN IF r.ok THEN r.v ELSE ParseFallback(section, doc)
       ELSE ParseFallback(section, doc)

\* ------------------------------------------------------------------- state
VARIABLES
  currentViewUrl,      \* let currentViewUrl
  storage,             \* chrome.storage.local, by key
  currentEditingData,  \* let currentEditingData: JNull or the document
  previousSection,     \* let previousSection: NoSection (null) or a section name
  selected,            \* sectionSelect.value
  view,                \* formContainer's content
  editorShown,         \* editorUI.style.display = 'block'
  actionsShown,        \* actionsDiv.style.display = 'block'
  timers,              \* setTimeout callbacks of the edit handler not yet run
  editPending,         \* edit handlers at their await: the storage read of each
  save,                \* the save handler: position, button state, what it awaits
  request,             \* the body of the POST /regenerate_pdf in flight
  generate,            \* the generate handler: button state and request number
  restoreResult,       \* the restore callback's storage read, "done" once run
  lastEvent,           \* the handler step taken last (history)
  nEvents              \* budgeted events so far

vars == <<currentViewUrl, storage, currentEditingData, previousSection, selected,
          view, editorShown, actionsShown, timers, editPending, save, request,
          generate, restoreResult, lastEvent, nEvents>>

Absent == "absent"
NoSection == "null"

\* the options of sectionSelect: known sections of each shape and one other
UnknownSection == "education"
SectionOptions == {"summary", "skills", "experience", UnknownSection}
\* the option selected when the popup loads
DefaultSection == "summary"

\* documents the generation service returns
DocA ==
  [summary |-> VStr(<<"a">>),
   contact |-> VObj([email |-> <<"a">>]),
   skills |-> VMap(<<[k |-> <<"L">>, v |-> <<"p">>]>>),
   experience |-> VList(<<[company |-> <<"a">>, role |-> <<"e">>, dates |-> <<"d">>,
                           location |-> <<>>, bullets |-> <<<<"x">>>>]>>),
   projects |-> VList(<<>>),
   leadership |-> Undef,
   education |-> JArr(<<JNum(1)>>)]

DocB == [DocA EXCEPT !.summary = VStr(<<"c">>), !.education = Undef]

GeneratedDocs == {DocA, DocB}

\* the resume_data the generation service returns to request number n
GeneratedDoc(n) == IF n % 2 = 1 THEN DocB ELSE DocA

\* The services answer request number n with a view_url of its own,
\* ViewUrl(n); OldUrl is the view_url an earlier run of the popup has stored.
UrlNames == <<"u1", "u2", "u3", "u4", "u5", "u6">>
CompanyNames == <<"c1", "c2", "c3", "c4", "c5", "c6">>
OldUrl == "u0"
ViewUrl(n) == UrlNames[n]

\* parts[4] of the view_url
CompanyOf(url) ==
  IF url = OldUrl THEN "c0"
  ELSE CompanyNames[CHOOSE n \in 1..Len(UrlNames) : UrlNames[n] = url]

StorageKeys == {"lastViewUrl", "lastStatus", "lastCompany", "lastResumeData",
                "lastJdText", "lastJobContext"}

\* a key that is not stored reads as undefined
EmptyStorage == [k \in StorageKeys |-> IF k = "lastResumeData" THEN Undef ELSE Absent]

\* chrome.storage.local.set(items)
StorageSet(st, items) == [k \in StorageKeys |-> IF k \in DOMAIN items THEN items[k] ELSE st[k]]

\* the items of chrome.storage.local.set on a successful generation
GeneratedItems(url, doc) ==
  [lastViewUrl |-> url, lastStatus |-> "Resume generated successfully!",
   lastCompany |-> CompanyOf(url), lastResumeData |-> doc,
   lastJdText |-> "jd", lastJobContext |-> "origin"]

\* what an earlier run of the popup can have left in the storage: nothing,
\* the keys the earlier popup.js writes, or the keys of a generation
InitStorages ==
  {EmptyStorage,
   StorageSet(EmptyStorage, [lastViewUrl |-> OldUrl, lastStatus |-> "Resume generated successfully!",
                             lastCompany |-> CompanyOf(OldUrl)]),
   StorageSet(EmptyStorage, GeneratedItems(OldUrl, DocA))}

SaveLabel == "Save & Regenerate"
BusyLabel == "Regenerating..."
IdleSave == [pc |-> "idle", disabled |-> FALSE, label |-> SaveLabel, company |-> Absent, id |-> 0]
NoRequest == [resume_data |-> JNull, company_name |-> Absent, filename |-> Absent]
IdleGenerate == [disabled |-> FALSE, id |-> 0]

Event(op, sec, res) == [op |-> op, sec |-> sec, res |-> res]

Init ==
  /\ currentViewUrl = Absent
  /\ storage \in InitStorages
  /\ currentEditingData = JNull
  /\ previousSection = NoSection
  /\ selected = DefaultSection
  /\ view = EmptyView
  /\ editorShown = FALSE
  /\ actionsShown = FALSE
  /\ timers = 0
  /\ editPending = <<>>
  /\ save = IdleSave
  /\ request = NoRequest
  /\ generate = IdleGenerate
  /\ restoreResult = storage.lastViewUrl
  /\ lastEvent = Event("init", NoSection, "none")
  /\ nEvents = 0

\* a budgeted event
Spend == nEvents < MaxEvents /\ nEvents' = nEvents + 1

\* ------------------------------------------------- what the user can reach
\* popup.html is not part of the source: the edit button is taken to sit in
\* actionsDiv and the editor's controls in editorUI, so that each can be used
\* only while its container is displayed.
EditBtnUsable == actionsShown
EditorControlsUsable == editorShown

\* ---------------------------------------------------------------- handlers
\* how parseEditor(section) ends on view v: "failed" when JSON.parse throws,
\* "null" when it returns null, "ok" otherwise
ParseOutcome(section, v, doc) ==
  IF section \notin KnownSections /\ "edit_raw_json" \in DOMAIN v.texts
     /\ ~JsonParse(v.texts["edit_raw_json"]).ok
  THEN "failed"
  ELSE IF parseEditor(section, v, doc) = JNull THEN "null" ELSE "ok"

\* a commit that takes every falsy result for the sentinel: if (savedData)
CommitIfTruthy(doc, section, v) ==
  LET savedData == parseEditor(section, v, doc)
  IN IF savedData \notin {JNull, VStr(<<>>)} THEN [doc EXCEPT ![section] = savedData] ELSE doc

\* if (savedData !== null) currentEditingData[section] = savedData
Commit(doc, section, v) ==
  LET savedData == parseEditor(section, v, doc)
  IN IF savedData # JNull THEN [doc EXCEPT ![section] = savedData] ELSE doc

\* the document after the AUTO-SAVE PREVIOUS SECTION block of the change handler
AutoSave(doc, prev, v) ==
  IF prev # NoSection THEN Commit(doc, prev, v) ELSE doc

\* a change handler that renders before it commits
RenderedBeforeCommit(doc, prev, v, section) == renderEditor(section, doc[section])

\* the view the change handler renders for section from the document it is
\* given, after its auto-save
Rendered(doc, prev, v, section) == renderEditor(section, AutoSave(doc, prev, v)[section])

\* a change handler that writes the parse of the section left into the key
\* of the section entered
ChangeHandlerCommitEntered(doc) ==
  IF doc = JNull
  THEN /\ currentEditingData' = doc
       /\ UNCHANGED <<view, previousSection>>
  ELSE /\ currentEditingData' =
            IF previousSection # NoSection /\ parseEditor(previousSection, view, doc) # JNull
            THEN [doc EXCEPT ![selected'] = parseEditor(previousSection, view, doc)]
            ELSE doc
       /\ view' = renderEditor(selected', currentEditingData'[selected'])
       /\ previousSection' = selected'

\* the sectionSelect change handler, run with currentEditingData = doc
ChangeHandler(doc) ==
  IF doc = JNull
  THEN /\ currentEditingData' = doc
       /\ UNCHANGED <<view, previousSection>>
  ELSE /\ currentEditingData' = AutoSave(doc, previousSection, view)
       /\ view' = Rendered(doc, previousSection, view, selected')
       /\ previousSection' = selected'

\* what the change handler's auto-save did, for the history
ChangeEvent(op, doc) ==
  Event(op, previousSection,
        IF previousSection = NoSection \/ doc = JNull THEN "none"
        ELSE ParseOutcome(previousSection, view, doc))

\* a navigation that writes the committed document through to the storage
SelectSectionPersisting(b) ==
  /\ EditorControlsUsable
  /\ b # selected
  /\ selected' = b
  /\ ChangeHandler(currentEditingData)
  /\ storage' = StorageSet(storage, [lastResumeData |-> currentEditingData'])
  /\ lastEvent' = ChangeEvent("change", currentEditingData)
  /\ UNCHANGED <<currentViewUrl, editorShown, actionsShown, timers, editPending,
                 save, request, generate, restoreResult, nEvents>>

\* the user picks another option of sectionSelect
SelectSection(b) ==
  /\ EditorControlsUsable
  /\ b # selected
  /\ selected' = b
  /\ ChangeHandler(currentEditingData)
  /\ lastEvent' = ChangeEvent("change", currentEditingData)
  /\ UNCHANGED <<currentViewUrl, storage, editorShown, actionsShown, timers, editPending,
                 save, request, generate, restoreResult, nEvents>>

\* the edit handler from "Show Editor" on, with currentEditingData = doc
ShowEditor(doc) ==
  /\ editorShown' = TRUE
  /\ actionsShown' = FALSE
  /\ UNCHANGED selected
  /\ ChangeHandler(doc)
  /\ timers' = timers + 1
  /\ IF timers > 0 THEN Spend ELSE UNCHANGED nEvents

\* editBtn click: up to the await when no document is loaded, to the end otherwise
EditClick ==
  /\ EditBtnUsable
  /\ IF currentEditingData = JNull
     THEN /\ editPending' = Append(editPending, storage.lastResumeData)
          /\ IF editPending # <<>> THEN Spend ELSE UNCHANGED nEvents
          /\ lastEvent' = Event("editAwait", NoSection, "none")
          /\ UNCHANGED <<currentEditingData, view, previousSection, selected, editorShown,
                         actionsShown, timers>>
     ELSE /\ ShowEditor(currentEditingData)
          /\ lastEvent' = ChangeEvent("editOpen", currentEditingData)
          /\ UNCHANGED editPending
  /\ UNCHANGED <<currentViewUrl, storage, save, request, generate, restoreResult>>

\* an edit handler that shows the editor whatever the storage read returned
EditLoadedUnchecked ==
  /\ editPending # <<>>
  /\ editPending' = Tail(editPending)
  /\ LET result == Head(editPending)
     IN IF result # Undef
        THEN /\ ShowEditor(result)
             /\ lastEvent' = ChangeEvent("editLoaded", result)
        ELSE /\ lastEvent' = Event("editMissing", NoSection, "alert")
             /\ editorShown' = TRUE
             /\ actionsShown' = FALSE
             /\ timers' = timers + 1
             /\ UNCHANGED <<currentEditingData, view, previousSection, selected, nEvents>>
  /\ UNCHANGED <<currentViewUrl, storage, save, request, generate, restoreResult>>

\* the edit handler resumes after await chrome.storage.local.get
EditLoaded ==
  /\ editPending # <<>>
  /\ editPending' = Tail(editPending)
  /\ LET result == Head(editPending)
     IN IF result # Undef
        THEN /\ ShowEditor(result)
             /\ lastEvent' = ChangeEvent("editLoaded", result)
        ELSE /\ lastEvent' = Event("editMissing", NoSection, "alert")
             /\ UNCHANGED <<currentEditingData, view, previousSection, selected, editorShown,
                            actionsShown, timers, nEvents>>
  /\ UNCHANGED <<currentViewUrl, storage, save, request, generate, restoreResult>>

\* a timer callback that clears the tracker
TimerFireClearing ==
  /\ timers > 0
  /\ timers' = timers - 1
  /\ previousSection' = NoSection
  /\ lastEvent' = Event("timer", NoSection, "none")
  /\ UNCHANGED <<currentViewUrl, storage, currentEditingData, selected, view, editorShown,
                 actionsShown, editPending, save, request, generate, restoreResult, nEvents>>

\* setTimeout(() => { previousSection = sectionSelect.value }, 100)
TimerFire ==
  /\ timers > 0
  /\ timers' = timers - 1
  /\ previousSection' = selected
  /\ lastEvent' = Event("timer", NoSection, "none")
  /\ UNCHANGED <<currentViewUrl, storage, currentEditingData, selected, view, editorShown,
                 actionsShown, editPending, save, request, generate, restoreResult, nEvents>>

\* a cancel that keeps the session's document by persisting it
CancelPersisting ==
  /\ EditorControlsUsable
  /\ editorShown' = FALSE
  /\ actionsShown' = TRUE
  /\ storage' = StorageSet(storage, [lastResumeData |-> currentEditingData])
  /\ lastEvent' = Event("cancel", NoSection, "none")
  /\ UNCHANGED <<currentViewUrl, currentEditingData, previousSection, selected, view,
                 timers, editPending, save, request, generate, restoreResult, nEvents>>

\* cancelEditBtn click
Cancel ==
  /\ EditorControlsUsable
  /\ editorShown' = FALSE
  /\ actionsShown' = TRUE
  /\ lastEvent' = Event("cancel", NoSection, "none")
  /\ UNCHANGED <<currentViewUrl, storage, currentEditingData, previousSection, selected, view,
                 timers, editPending, save, request, generate, restoreResult, nEvents>>

\* a save click that names the company after the edited document
SaveClickCompanyFromDocument ==
  /\ EditorControlsUsable
  /\ ~save.disabled
  /\ currentEditingData # JNull
  /\ Spend
  /\ currentEditingData' = Commit(currentEditingData, selected, view)
  /\ save' = [pc |-> "company", disabled |-> TRUE, label |-> BusyLabel,
              company |-> IF currentEditingData' = storage.lastResumeData
                          THEN storage.lastCompany ELSE "edited",
              id |-> nEvents']
  /\ lastEvent' = Event("saveClick", selected, ParseOutcome(selected, view, currentEditingData))
  /\ UNCHANGED <<currentViewUrl, storage, previousSection, selected, view, editorShown,
                 actionsShown, timers, editPending, request, generate, restoreResult>>

\* saveRegenBtn click, up to await chrome.storage.local.get(['lastCompany'])
SaveClick ==
  /\ EditorControlsUsable
  /\ ~save.disabled
  /\ currentEditingData # JNull
  /\ Spend
  /\ currentEditingData' = Commit(currentEditingData, selected, view)
  /\ save' = [pc |-> "company", disabled |-> TRUE, label |-> BusyLabel, company |-> storage.lastCompany,
              id |-> nEvents']
  /\ lastEvent' = Event("saveClick", selected, ParseOutcome(selected, view, currentEditingData))
  /\ UNCHANGED <<currentViewUrl, storage, previousSection, selected, view, editorShown,
                 actionsShown, timers, editPending, request, generate, restoreResult>>

FileName == "Pranay_Saggar_Resume.pdf"

\* a body that carries the persisted document with the active section replaced
RequestBodyActiveOnly(doc, company) ==
  [resume_data |-> [storage.lastResumeData EXCEPT ![selected] = doc[selected]],
   company_name |-> IF company # Absent THEN company ELSE "Manual_Edit",
   filename |-> FileName]

\* the body of the POST: JSON.stringify of the document at the time of the call
RequestBody(doc, company) ==
  [resume_data |-> doc,
   company_name |-> IF company # Absent THEN company ELSE "Manual_Edit",
   filename |-> FileName]

\* a handler that enables the control again once the request is sent
SaveFetchEnabling ==
  /\ save.pc = "company"
  /\ request' = RequestBody(currentEditingData, save.company)
  /\ save' = [save EXCEPT !.pc = "fetch", !.disabled = FALSE]
  /\ lastEvent' = Event("saveFetch", NoSection, "none")
  /\ UNCHANGED <<currentViewUrl, storage, currentEditingData, previousSection, selected, view,
                 editorShown, actionsShown, timers, editPending, generate, restoreResult,
                 nEvents>>

\* the save handler resumes with lastCompany and calls fetch
SaveFetch ==
  /\ save.pc = "company"
  /\ request' = RequestBody(currentEditingData, save.company)
  /\ save' = [save EXCEPT !.pc = "fetch"]
  /\ lastEvent' = Event("saveFetch", NoSection, "none")
  /\ UNCHANGED <<currentViewUrl, storage, currentEditingData, previousSection, selected, view,
                 editorShown, actionsShown, timers, editPending, generate, restoreResult,
                 nEvents>>

\* items that replace only the active section of the persisted document
SavedItemsActiveOnly(url, doc) ==
  [lastViewUrl |-> url,
   lastResumeData |-> [storage.lastResumeData EXCEPT ![selected] = doc[selected]],
   lastStatus |-> "Resume updated."]

\* the items of chrome.storage.local.set on a successful regeneration
SavedItems(url, doc) ==
  [lastViewUrl |-> url, lastResumeData |-> doc, lastStatus |-> "Resume updated."]

\* a success that also stores the company of the new artifact
SaveSucceededWithCompany(url) ==
  /\ currentViewUrl' = url
  /\ storage' = StorageSet(storage, [lastViewUrl |-> url, lastResumeData |-> currentEditingData,
                                     lastStatus |-> "Resume updated.",
                                     lastCompany |-> CompanyOf(url)])
  /\ actionsShown' = TRUE
  /\ editorShown' = FALSE
  /\ lastEvent' = Event("saveSuccess", NoSection, "none")

\* data.status === 'success'
SaveSucceeded(url) ==
  /\ currentViewUrl' = url
  /\ storage' = StorageSet(storage, SavedItems(url, currentEditingData))
  /\ actionsShown' = TRUE
  /\ editorShown' = FALSE
  /\ lastEvent' = Event("saveSuccess", NoSection, "none")

\* a failure that persists the document all the same
SaveFailedPersisting(outcome) ==
  /\ lastEvent' = Event("saveFailed", NoSection, IF outcome = "other" THEN "silent" ELSE "alert")
  /\ storage' = StorageSet(storage, [lastResumeData |-> currentEditingData])
  /\ UNCHANGED <<currentViewUrl, actionsShown, editorShown>>

\* the fetch rejects, the response is not ok, or its body is no JSON: the
\* catch block alerts; a body whose status is not 'success' passes silently
SaveFailed(outcome) ==
  /\ lastEvent' = Event("saveFailed", NoSection, IF outcome = "other" THEN "silent" ELSE "alert")
  /\ UNCHANGED <<currentViewUrl, storage, actionsShown, editorShown>>

SaveOutcomes == {"network", "notok", "badjson", "other"}

\* a handler that restores the control in the success branch only
SaveResponseRestoringOnSuccess ==
  /\ save.pc = "fetch"
  /\ \/ SaveSucceeded(ViewUrl(save.id)) /\ save' = IdleSave
     \/ \E outcome \in SaveOutcomes :
          SaveFailed(outcome) /\ save' = [save EXCEPT !.pc = "idle"]
  /\ request' = NoRequest
  /\ UNCHANGED <<currentEditingData, previousSection, selected, view, timers, editPending,
                 generate, restoreResult, nEvents>>

\* the save handler resumes with the response and runs to the end of finally
SaveResponse ==
  /\ save.pc = "fetch"
  /\ \/ SaveSucceeded(ViewUrl(save.id))
     \/ \E outcome \in SaveOutcomes : SaveFailed(outcome)
  /\ save' = IdleSave
  /\ request' = NoRequest
  /\ UNCHANGED <<currentEditingData, previousSection, selected, view, timers, editPending,
                 generate, restoreResult, nEvents>>

\* generateBtn click, up to the first await
GenerateClick ==
  /\ ~generate.disabled
  /\ Spend
  /\ generate' = [disabled |-> TRUE, id |-> nEvents']
  /\ actionsShown' = FALSE
  /\ lastEvent' = Event("generateClick", NoSection, "none")
  /\ UNCHANGED <<currentViewUrl, storage, currentEditingData, previousSection, selected, view,
                 editorShown, timers, editPending, save, request, restoreResult>>

\* a success that stores the generation but keeps the stored view_url
GenerateSucceededPointerOnly(url, doc) ==
  /\ currentViewUrl' = url
  /\ actionsShown' = TRUE
  /\ storage' = StorageSet(storage, [GeneratedItems(url, doc) EXCEPT
                                       !.lastViewUrl = storage.lastViewUrl])
  /\ lastEvent' = Event("generateSuccess", NoSection, "none")

\* data.status === 'success' && data.view_url
GenerateSucceeded(url, doc) ==
  /\ currentViewUrl' = url
  /\ actionsShown' = TRUE
  /\ storage' = StorageSet(storage, GeneratedItems(url, doc))
  /\ lastEvent' = Event("generateSuccess", NoSection, "none")

\* any throw of the generate handler: the catch block shows the error
GenerateFailed ==
  /\ lastEvent' = Event("generateFailed", NoSection, "alert")
  /\ UNCHANGED <<currentViewUrl, actionsShown, storage>>

\* the generate handler from its response to the end of finally; the response
\* of the service arrives after the callback of the storage read that was
\* issued when the popup loaded
GenerateDone ==
  /\ generate.disabled
  /\ restoreResult = "done"
  /\ generate' = IdleGenerate
  /\ \/ GenerateSucceeded(ViewUrl(generate.id), GeneratedDoc(generate.id))
     \/ GenerateFailed
  /\ UNCHANGED <<currentEditingData, previousSection, selected, view, editorShown, timers,
                 editPending, save, request, restoreResult, nEvents>>

\* the callback of the chrome.storage.local.get issued when the popup loads
RestoreState ==
  /\ restoreResult # "done"
  /\ restoreResult' = "done"
  /\ IF restoreResult # Absent
     THEN currentViewUrl' = restoreResult /\ actionsShown' = TRUE
     ELSE UNCHANGED <<currentViewUrl, actionsShown>>
  /\ lastEvent' = Event("restore", NoSection, "none")
  /\ UNCHANGED <<storage, currentEditingData, previousSection, selected, view, editorShown,
                 timers, editPending, save, request, generate, nEvents>>

\* ------------------------------------------------------ the user edits the view
\* what the user types: into a text field, into the raw JSON field
TypedStrs == {<<"b">>}
RawTexts == {<<"[", "2", "]">>, <<"[">>, <<"n", "u", "l", "l">>}
\* the inputs of a block the user types into
TypedInputs == {"skill-category-input", "skill-values-input", "item-role"}

\* templates of the add buttons
NewItem(section) ==
  IF section = "experience"
  THEN [company |-> <<"New Company">>, role |-> <<"Role">>, location |-> <<"Location">>,
        dates |-> <<"Present">>, bullets |-> <<<<"New bullet">>>>]
  ELSE IF section = "projects"
  THEN [name |-> <<"New Project">>, tech |-> <<"Tech Stack">>, dates |-> <<"2024">>,
        bullets |-> <<<<"New bullet">>>>]
  ELSE [organization |-> <<"Organization">>, role |-> <<"Role">>, location |-> <<"Location">>,
        dates |-> <<"Dates">>, bullets |-> <<<<"New bullet">>>>]

NewCategoryBlock ==
  Block([c \in {"skill-category-input", "skill-values-input"} |->
           IF c = "skill-category-input" THEN InputValue(<<"New Category">>)
           ELSE TextareaValue(<<>>)], <<>>)

RemoveAt(seq, i) == SubSeq(seq, 1, i - 1) \o SubSeq(seq, i + 1, Len(seq))

\* the views one user action on the view v can produce: typing into a field,
\* the add button, a block's remove button, a block's add-bullet button, a
\* bullet's remove button
ViewEdits(v) ==
  UNION {{[v EXCEPT !.texts[id] = s] :
            s \in IF id = "edit_raw_json" THEN RawTexts ELSE TypedStrs} : id \in DOMAIN v.texts}
  \cup {[v EXCEPT !.contact[i].value = s] : i \in 1..Len(v.contact), s \in TypedStrs}
  \cup (IF v.rendered = "skills" THEN {[v EXCEPT !.blocks = Append(@, NewCategoryBlock)]}
        ELSE IF v.rendered \in ListSections
        THEN {[v EXCEPT !.blocks = Append(@, renderItemBlock(NewItem(v.rendered), v.rendered))]}
        ELSE {})
  \cup {[v EXCEPT !.blocks = RemoveAt(@, i)] : i \in 1..Len(v.blocks)}
  \cup UNION {{[v EXCEPT !.blocks[i].inputs[c] = s] :
                 c \in DOMAIN v.blocks[i].inputs \cap TypedInputs, s \in TypedStrs} :
              i \in 1..Len(v.blocks)}
  \cup (IF v.rendered \in ListSections
        THEN {[v EXCEPT !.blocks[i].bullets = Append(@, createBulletRow(<<>>))] :
                i \in 1..Len(v.blocks)}
        ELSE {})
  \cup UNION {{[v EXCEPT !.blocks[i].bullets = RemoveAt(@, j)] :
                 j \in 1..Len(v.blocks[i].bullets)} : i \in 1..Len(v.blocks)}
  \cup UNION {{[v EXCEPT !.blocks[i].bullets[j] = s] :
                 j \in 1..Len(v.blocks[i].bullets), s \in TypedStrs} : i \in 1..Len(v.blocks)}

\* a view whose controls write every edit through to the document
EditViewWritingThrough ==
  /\ EditorControlsUsable
  /\ Spend
  /\ \E v \in ViewEdits(view) : v # view /\ view' = v
  /\ currentEditingData' =
       IF currentEditingData # JNull /\ previousSection # NoSection
       THEN Commit(currentEditingData, previousSection, view')
       ELSE currentEditingData
  /\ lastEvent' = Event("editView", NoSection, "none")
  /\ UNCHANGED <<currentViewUrl, storage, previousSection, selected,
                 editorShown, actionsShown, timers, editPending, save, request,
                 generate, restoreResult>>

\* the user types into a field or uses an add or remove button of the view
EditView ==
  /\ EditorControlsUsable
  /\ Spend
  /\ \E v \in ViewEdits(view) : v # view /\ view' = v
  /\ lastEvent' = Event("editView", NoSection, "none")
  /\ UNCHANGED <<currentViewUrl, storage, currentEditingData, previousSection, selected,
                 editorShown, actionsShown, timers, editPending, save, request,
                 generate, restoreResult>>

Next ==
  \/ RestoreState
  \/ GenerateClick
  \/ GenerateDone
  \/ EditClick
  \/ EditLoaded
  \/ TimerFire
  \/ Cancel
  \/ \E b \in SectionOptions : SelectSection(b)
  \/ EditView
  \/ SaveClick
  \/ SaveFetch
  \/ SaveResponse

Spec == Init /\ [][Next]_vars

\* ------------------------------------------------------------------ claims
\* the document a change-handler step starts from: the storage read for the
\* step that resumes the edit handler, currentEditingData for the others
DocAtChange == IF lastEvent'.op = "editLoaded" THEN Head(editPending) ELSE currentEditingData

ChangeOps == {"change", "editOpen", "editLoaded"}

\* C1: every run of the change handler in a session whose tracker names a
\* section A parses A's view and, when the result is not null, writes it into
\* the document at key A, and the view it then shows is the rendering of the
\* selected section B from the document that holds A's commit (A = B included).
C1_CommitBeforeRender ==
  [][(lastEvent'.op \in ChangeOps /\ previousSection # NoSection)
       => LET doc == DocAtChange
              parsed == parseEditor(previousSection, view, doc)
              committed == IF parsed # JNull THEN [doc EXCEPT ![previousSection] = parsed]
                           ELSE doc
          IN /\ currentEditingData' = committed
             /\ view' = renderEditor(selected', committed[selected'])]_vars

\* a navigation from A to another section B committed a value of A that the
\* persisted document does not hold, and B is shown
C1_Witness ==
  /\ lastEvent.op = "change"
  /\ lastEvent.res = "ok"
  /\ lastEvent.sec # selected
  /\ view.rendered = selected
  /\ currentEditingData[lastEvent.sec] # storage.lastResumeData[lastEvent.sec]

\* C2: when a save-and-regenerate has succeeded, the persisted lastResumeData
\* is the whole in-memory document.
C2_SavePersistsWholeDocument ==
  lastEvent.op = "saveSuccess" => storage.lastResumeData = currentEditingData

\* a save succeeded and persisted, for a section other than the active one, a
\* value no generation has produced
C2_Witness ==
  /\ lastEvent.op = "saveSuccess"
  /\ \E s \in SectionOptions \ {selected} :
       \A d \in GeneratedDocs : storage.lastResumeData[s] # d[s]

SaveOps == {"saveClick", "saveFetch", "saveFailed"}

\* C3: no step of a save that fails (the click, the request, the failure by
\* network error, non-ok response or a status other than "success") changes
\* the persisted lastResumeData and lastViewUrl, currentViewUrl, the editor's
\* display or the active section.
C3_FailedSaveChangesNothing ==
  [][lastEvent'.op \in SaveOps
       => /\ storage'.lastResumeData = storage.lastResumeData
          /\ storage'.lastViewUrl = storage.lastViewUrl
          /\ currentViewUrl' = currentViewUrl
          /\ editorShown' = editorShown
          /\ actionsShown' = actionsShown
          /\ selected' = selected
          /\ previousSection' = previousSection]_vars

\* a save whose response had a status other than "success" has ended with the
\* editor open and a document that differs from the persisted one
C3_Witness ==
  /\ lastEvent.op = "saveFailed"
  /\ lastEvent.res = "silent"
  /\ editorShown
  /\ currentEditingData # storage.lastResumeData

\* C4: cancel leaves the persisted lastResumeData and lastViewUrl and the
\* in-memory currentViewUrl unchanged, whenever it fires.
C4_CancelFrame ==
  [][lastEvent'.op = "cancel"
       => /\ storage'.lastResumeData = storage.lastResumeData
          /\ storage'.lastViewUrl = storage.lastViewUrl
          /\ currentViewUrl' = currentViewUrl]_vars

\* cancel has fired on a session whose document differs from the persisted one
C4_Witness ==
  /\ lastEvent.op = "cancel"
  /\ ~editorShown
  /\ currentEditingData # JNull
  /\ currentEditingData # storage.lastResumeData

OpenOps == {"editOpen", "editLoaded"}

\* C5: cancel discards the in-memory document: the open that follows a cancel
\* starts from a copy of the persisted snapshot, and the editor shows the
\* selected section of that snapshot.
C5_CancelDiscardsDocument ==
  [][(lastEvent.op = "cancel" /\ lastEvent'.op \in OpenOps)
       => /\ currentEditingData' = storage.lastResumeData
          /\ view' = renderEditor(selected', storage.lastResumeData[selected'])]_vars

\* C6: the edits of the view that were not committed before a cancel are not
\* written into the document by the cancel or by the open that follows it:
\* every section of the document then holds the value it had at the cancel or
\* the persisted one.
C6_UnflushedEditsNeverWritten ==
  [][(lastEvent'.op = "cancel" \/ (lastEvent.op = "cancel" /\ lastEvent'.op \in OpenOps))
       => \/ currentEditingData' = JNull
          \/ \A s \in DOMAIN currentEditingData' :
               \/ currentEditingData'[s] = storage.lastResumeData[s]
               \/ currentEditingData # JNull /\ currentEditingData'[s] = currentEditingData[s]]_vars

\* C7: the save click parses the active section and commits a non-null result
\* while no request is built yet, and the request built afterwards carries the
\* whole in-memory document.
C7_SaveCommitsThenSendsWholeDocument ==
  [][/\ lastEvent'.op = "saveClick"
        => LET parsed == parseEditor(selected, view, currentEditingData)
           IN /\ currentEditingData' =
                   IF parsed # JNull THEN [currentEditingData EXCEPT ![selected] = parsed]
                   ELSE currentEditingData
              /\ request' = NoRequest
     /\ lastEvent'.op = "saveFetch"
        => /\ request'.resume_data = currentEditingData
           /\ currentEditingData' = currentEditingData]_vars

\* a request is built whose resume_data holds, for a section other than the
\* active one, a value the persisted document does not hold, next to a section
\* with its persisted value
C7_Witness ==
  /\ lastEvent.op = "saveFetch"
  /\ \E s \in SectionOptions \ {selected} :
       request.resume_data[s] # storage.lastResumeData[s]
  /\ \E s \in SectionOptions : request.resume_data[s] = storage.lastResumeData[s]

\* the section a step parses: the active one for the save click, the tracked
\* one for the change handler
ParsedSection == IF lastEvent'.op = "saveClick" THEN selected ELSE previousSection

\* C9: a navigation or save that parses a section outside the known types
\* leaves every other section of the document as it was, and the section
\* itself is either the deserialized text or, when the text does not
\* deserialize, exactly what it was.
C9_UnknownSectionAllOrNothing ==
  [][(/\ lastEvent'.op \in {"change", "editOpen", "saveClick"}
      /\ currentEditingData # JNull
      /\ ParsedSection \notin KnownSections \cup {NoSection}
      /\ "edit_raw_json" \in DOMAIN view.texts)
       => LET r == JsonParse(view.texts["edit_raw_json"])
          IN /\ \A s \in DOMAIN currentEditingData \ {ParsedSection} :
                  currentEditingData'[s] = currentEditingData[s]
             /\ ~r.ok => currentEditingData' = currentEditingData
             /\ (r.ok /\ r.v # JNull) => currentEditingData'[ParsedSection] = r.v]_vars

\* a step parsed the raw text of the other section, the text did not
\* deserialize, and the document holds a value for that section
C9_Witness ==
  /\ lastEvent.op \in {"change", "saveClick"}
  /\ lastEvent.sec = UnknownSection
  /\ lastEvent.res = "failed"
  /\ currentEditingData[UnknownSection] # Undef

\* C10: when the edit handler finds no in-memory document and no persisted
\* lastResumeData, it alerts and starts no session: the editor is not shown,
\* there is no document, the tracker is unset and no timer is scheduled.
C10_MissingSnapshot ==
  lastEvent.op = "editMissing"
    => /\ lastEvent.res = "alert"
       /\ ~editorShown
       /\ currentEditingData = JNull
       /\ previousSection = NoSection
       /\ timers = 0

\* the edit button was usable (a view_url was stored) and the open found no
\* persisted document
C10_Witness ==
  /\ lastEvent.op = "editMissing"
  /\ storage.lastResumeData = Undef
  /\ actionsShown

\* C11: every regeneration failure (network error, non-ok response, ok
\* response whose status is not "success") ends with an error shown to the
\* user, and the failure leaves the editor displayed as it was.
C11_FailureReported ==
  [][lastEvent'.op = "saveFailed"
       => /\ lastEvent'.res = "alert"
          /\ editorShown' = editorShown]_vars

WritingOps == {"generateSuccess", "saveSuccess"}

\* C12: the persisted lastResumeData changes only in the step of a successful
\* generation or of a successful save; open, navigation, view edits and
\* cancel leave it as it is.
C12_PersistedChangesOnlyOnSuccess ==
  [][storage'.lastResumeData # storage.lastResumeData => lastEvent'.op \in WritingOps]_vars

\* a navigation of an open session has committed an edit, and the persisted
\* document is still the generated one
C12_Witness ==
  /\ editorShown
  /\ lastEvent.op = "change"
  /\ storage.lastResumeData \in GeneratedDocs
  /\ currentEditingData[lastEvent.sec] # storage.lastResumeData[lastEvent.sec]

\* steps that call parseEditor: the change handler and the save click
ParsingOps == {"change", "editOpen", "saveClick"}

\* the step parses the view of section into the loaded document
Parses(section) ==
  /\ lastEvent'.op \in ParsingOps
  /\ currentEditingData # JNull
  /\ ParsedSection = section
  /\ view.rendered = section

\* C17: the parse of the skills section has one pair per category block of
\* the view, in display order, keyed by the block's category text and holding
\* the block's value: blocks with the same category name are all kept.
C17_SkillsNotDeduplicated ==
  [][Parses("skills")
       => LET kv == currentEditingData'["skills"].kv
          IN /\ Len(kv) = Len(view.blocks)
             /\ \A i \in 1..Len(view.blocks) :
                  /\ kv[i].k = view.blocks[i].inputs["skill-category-input"]
                  /\ kv[i].v = view.blocks[i].inputs["skill-values-input"]]_vars

\* C18: whenever the raw text of a section outside the known types
\* deserializes, a navigation or save writes the deserialized value into the
\* document.
C18_ParsedValueWritten ==
  [][(Parses(UnknownSection) /\ "edit_raw_json" \in DOMAIN view.texts
      /\ JsonParse(view.texts["edit_raw_json"]).ok)
       => currentEditingData'[UnknownSection] = JsonParse(view.texts["edit_raw_json"]).v]_vars

SaveHandlerOps == {"saveClick", "saveFetch", "saveSuccess", "saveFailed"}
KeptKeys == {"lastCompany", "lastJdText", "lastJobContext"}

\* C20: a successful save writes the keys lastViewUrl, lastResumeData and
\* lastStatus and no other; no step of a save, successful or failed, changes
\* lastCompany, lastJdText or lastJobContext.
C20_SaveWritesThreeKeys ==
  [][lastEvent'.op \in SaveHandlerOps
       => /\ \A k \in KeptKeys : storage'[k] = storage[k]
          /\ lastEvent'.op = "saveSuccess"
               => /\ storage'.lastViewUrl = currentViewUrl'
                  /\ storage'.lastResumeData = currentEditingData
                  /\ storage'.lastStatus = "Resume updated."
          /\ lastEvent'.op # "saveSuccess" => storage' = storage]_vars

\* a save has succeeded on a storage written by a generation: the artifact
\* reference and the status are new, the company is the generation's
C20_Witness ==
  /\ lastEvent.op = "saveSuccess"
  /\ storage.lastViewUrl # OldUrl
  /\ storage.lastStatus = "Resume updated."
  /\ storage.lastCompany = CompanyOf(OldUrl)
  /\ storage.lastJdText # Absent


\* C21: the save handler reads the company from the stored lastCompany, and
\* the request it builds carries that company (a fixed name when none is
\* stored) and a fixed filename, whatever the edited document holds.
C21_CompanyAndFilenameFixed ==
  [][/\ lastEvent'.op = "saveClick" => save'.company = storage.lastCompany
     /\ lastEvent'.op = "saveFetch"
        => /\ request'.company_name
                = IF save.company # Absent THEN save.company ELSE "Manual_Edit"
           /\ request'.filename = "Pranay_Saggar_Resume.pdf"]_vars

\* a request carries an edited document under the company of the stored
\* generation
C21_Witness ==
  /\ lastEvent.op = "saveFetch"
  /\ request.resume_data # storage.lastResumeData
  /\ request.company_name = CompanyOf(OldUrl)
  /\ storage.lastCompany = CompanyOf(OldUrl)

\* C22: a successful generate or save makes its view_url the in-memory
\* currentViewUrl and the persisted lastViewUrl, and the two stay equal from
\* then on: they hold the view_url of the last success.
C22_ArtifactPointerAgrees ==
  [][/\ lastEvent'.op = "generateSuccess"
        => (currentViewUrl' = ViewUrl(generate.id) /\ storage'.lastViewUrl = ViewUrl(generate.id))
     /\ lastEvent'.op = "saveSuccess"
        => /\ currentViewUrl' = ViewUrl(save.id)
           /\ storage'.lastViewUrl = ViewUrl(save.id)
           /\ ~editorShown'
     /\ (currentViewUrl # Absent /\ currentViewUrl = storage.lastViewUrl)
        => currentViewUrl' = storage'.lastViewUrl]_vars


\* a save has succeeded after a generation: both pointers hold the save's
\* view_url, which is not the generation's
C22_Witness ==
  /\ lastEvent.op = "saveSuccess"
  /\ currentViewUrl = storage.lastViewUrl
  /\ currentViewUrl # OldUrl
  /\ storage.lastStatus = "Resume updated."
  /\ storage.lastCompany # CompanyOf(OldUrl)


\* C23: while the editor is shown, the tracker previousSection, the section
\* whose view is rendered and the selected section are the same, in whatever
\* order the timer callbacks and the navigations run; every run of the change
\* handler parses the view of the tracked section.
C23_TrackerMatchesView ==
  [][/\ editorShown' => (previousSection' = selected' /\ view'.rendered = selected')
     /\ (lastEvent'.op \in ChangeOps /\ previousSection # NoSection)
        => view.rendered = previousSection]_vars

\* a timer callback has run after the user navigated away from the section
\* the editor was opened on
C23_Witness ==
  /\ editorShown
  /\ lastEvent.op = "timer"
  /\ selected # DefaultSection
  /\ previousSection = selected
  /\ view.rendered = selected

\* C24: a navigation from section A changes no key of the in-memory document
\* other than A.
C24_NavigationFrame ==
  [][(lastEvent'.op = "change" /\ currentEditingData # JNull)
       => \A s \in DOMAIN currentEditingData \ {previousSection} :
            currentEditingData'[s] = currentEditingData[s]]_vars

\* a navigation has committed an edit of the section left, and every other
\* section, the one entered included, holds its persisted value
C24_Witness ==
  /\ lastEvent.op = "change"
  /\ lastEvent.sec # selected
  /\ lastEvent.sec # NoSection
  /\ storage.lastResumeData # Undef
  /\ currentEditingData[lastEvent.sec] # storage.lastResumeData[lastEvent.sec]
  /\ \A s \in DOMAIN currentEditingData \ {lastEvent.sec} :
       currentEditingData[s] = storage.lastResumeData[s]


\* C25: when a save succeeds, the document written to lastResumeData is the
\* resume_data that was submitted in that request, also when the user
\* navigates or cancels while the request is in flight.
C25_PersistedIsSubmitted ==
  [][lastEvent'.op = "saveSuccess" => storage'.lastResumeData = request.resume_data]_vars


\* C26: an open of the editor that finds a document in memory, whether it was
\* clicked while the editor was shown or resumed from a snapshot read that an
\* earlier open overtook, keeps that document: no key other than the one the
\* tracked view is parsed into changes.
C26_OpenKeepsDocument ==
  [][(lastEvent'.op \in OpenOps /\ currentEditingData # JNull)
       => \A s \in DOMAIN currentEditingData \ {previousSection} :
            currentEditingData'[s] = currentEditingData[s]]_vars


\* C27: the open of the editor that follows a successful generate edits a copy
\* of the document that generate stored: the snapshot read it starts returns
\* that document, and when it opens at once, every key other than the one the
\* tracked view is parsed into holds the value of the stored document.
C27_OpenAfterGenerateIsFresh ==
  [][lastEvent.op = "generateSuccess"
       => /\ lastEvent'.op = "editAwait"
             => editPending'[Len(editPending')] = storage.lastResumeData
          /\ lastEvent'.op = "editOpen"
             => \A s \in DOMAIN currentEditingData' \ {previousSection} :
                  currentEditingData'[s] = storage.lastResumeData[s]]_vars


\* the blocks of the view v with the number of bullet rows of each
ViewShape(v) == [i \in 1..Len(v.blocks) |-> Len(v.blocks[i].bullets)]

\* C28: adding or removing an entry, a skills category or a bullet row changes
\* the view and neither the in-memory document nor the persisted one, and the
\* cancel that follows such a step leaves the in-memory document as it was.
C28_StructuralEditsViewOnly ==
  [][/\ (lastEvent'.op = "editView" /\ ViewShape(view') # ViewShape(view))
        => /\ currentEditingData' = currentEditingData
           /\ storage' = storage
           /\ view' # view
     /\ (lastEvent.op = "editView" /\ lastEvent'.op = "cancel")
        => currentEditingData' = currentEditingData]_vars

\* the editor was cancelled with an entry added to or removed from the view
\* of a list section, and the document still holds the persisted entries
C28_Witness ==
  /\ lastEvent.op = "cancel"
  /\ view.rendered \in ListSections
  /\ currentEditingData # JNull
  /\ currentEditingData[view.rendered].t = "list"
  /\ Len(view.blocks) # Len(currentEditingData[view.rendered].items)
  /\ currentEditingData = storage.lastResumeData


\* C29: from the click that starts a save until its request has completed or
\* failed the save control is disabled; a save starts only when no save is
\* under way, and a request is sent only when none is in flight.
C29_OneRequestInFlight ==
  [][/\ save'.disabled = (save'.pc # "idle")
     /\ request' # NoRequest => (save'.pc = "fetch" /\ save'.disabled)
     /\ lastEvent'.op = "saveClick" => (save.pc = "idle" /\ request = NoRequest)
     /\ lastEvent'.op = "saveFetch" => (request = NoRequest /\ request' # NoRequest)]_vars

\* the user has navigated in the editor while a request is in flight, and
\* the control is still disabled
C29_Witness ==
  /\ save.pc = "fetch"
  /\ save.disabled
  /\ request # NoRequest
  /\ editorShown
  /\ lastEvent.op = "change"

\* ------------------------------------------- render and parse on drawn values
\* The persisted document holds one section, with a value drawn from the
\* canonical values of its type or from the legacy forms of it; the editor is
\* opened on that section and the document saved, which parses the view as
\* rendered.
AllSections == KnownSections \cup {UnknownSection}

Strs == StrsUpTo(MaxStrLen)
ShortStrs == StrsUpTo(MaxStrLen - 1)
TrimmedStrs == {s \in Strs : Trim(s) = s}
TrimmedShortStrs == {s \in ShortStrs : Trim(s) = s}

RECURSIVE SeqsUpTo(_, _)
SeqsUpTo(S, n) ==
  IF n = 0 THEN {<<>>}
  ELSE LET shorter == SeqsUpTo(S, n - 1)
       IN shorter \cup {Append(q, x) : q \in shorter, x \in S}

\* texts of a stored bullet: empty, whitespace only, plain, with a quote
BulletTexts == {<<>>, <<" ">>, <<"a">>, <<"\"">>}
BulletLists == SeqsUpTo(BulletTexts, MaxBullets)

ItemFields(section) ==
  IF section = "experience" THEN {"company", "role", "location", "dates"}
  ELSE IF section = "leadership" THEN {"organization", "role", "location", "dates"}
  ELSE {"name", "tech", "dates"}

\* an entry with field f set to s, the other fields to "a", and the bullets bs
CanonicalItem(section, f, s, bs) ==
  [k \in ItemFields(section) \cup {"bullets"} |->
     IF k = "bullets" THEN bs ELSE IF k = f THEN s ELSE <<"a">>]

FieldItems(section) ==
  {CanonicalItem(section, f, s, <<<<"a">>>>) : f \in ItemFields(section), s \in ShortStrs}

BulletItems(section) == {CanonicalItem(section, "dates", <<"a">>, bs) : bs \in BulletLists}

CanonicalItems(section) == FieldItems(section) \cup BulletItems(section)

ContactKeys == {ContactFields[i] : i \in 1..Len(ContactFields)}

CanonicalValues(section) ==
  IF section = "summary" THEN {VStr(s) : s \in Strs}
  ELSE IF section = "contact"
  THEN {VObj([k \in ContactKeys |-> IF k = key THEN s ELSE <<"a">>]) :
          key \in ContactKeys, s \in TrimmedShortStrs}
       \cup {VObj([k \in {key} |-> s]) : key \in ContactKeys, s \in TrimmedShortStrs}
       \cup {VObj([k \in {"email"} |-> s]) : s \in TrimmedStrs}
  ELSE IF section = "skills"
  THEN {VMap(<<>>)}
       \cup {VMap(<<[k |-> c, v |-> s]>>) : c \in ShortStrs, s \in ShortStrs}
       \cup {VMap(<<[k |-> <<"a">>, v |-> s], [k |-> <<"a", "a">>, v |-> <<>>]>>) :
               s \in ShortStrs}
  ELSE {VList(<<>>)}
       \cup {VList(<<it>>) : it \in CanonicalItems(section)}
       \cup {VList(<<it, CanonicalItem(section, "dates", <<>>, <<>>)>>) :
               it \in BulletItems(section)}

\* texts of a field that is stored next to its legacy alias
OldTexts == {<<>>, <<"c">>}

\* item without the key, and item with the keys of extra added or replaced
Without(item, key) == [k \in DOMAIN item \ {key} |-> item[k]]
Overlay(item, extra) ==
  [k \in DOMAIN item \cup DOMAIN extra |-> IF k \in DOMAIN extra THEN extra[k] ELSE item[k]]

\* entries that hold the alias next to the field key, with the field set to
\* r, or that hold the alias only
AliasItems(section, key, alias) ==
  LET base == CanonicalItem(section, key, <<>>, <<<<"a">>>>)
  IN {Overlay(base, [k \in {key, alias} |-> IF k = key THEN r ELSE t]) :
        r \in OldTexts, t \in ShortStrs}
     \cup {Overlay(Without(base, key), [k \in {alias} |-> t]) : t \in ShortStrs}

AliasContacts(key, alias) ==
  {VObj([k \in {key, alias} |-> IF k = key THEN r ELSE t]) : r \in OldTexts, t \in ShortStrs}
  \cup {VObj([k \in {alias} |-> t]) : t \in ShortStrs}

\* values written by other parts of the system: legacy alias keys, contact
\* values with surrounding whitespace
LegacyValues(section) ==
  IF section = "experience"
  THEN {VList(<<it>>) : it \in AliasItems(section, "role", "title")
                               \cup AliasItems(section, "dates", "date")}
  ELSE IF section = "leadership"
  THEN {VList(<<it>>) : it \in AliasItems(section, "role", "title")}
  ELSE IF section = "projects"
  THEN {VList(<<it>>) : it \in AliasItems(section, "dates", "date")}
  ELSE IF section = "contact"
  THEN AliasContacts("linkedin_url", "linkedin") \cup AliasContacts("portfolio_url", "portfolio")
       \cup {VObj([k \in {"email"} |-> s]) : s \in Strs \ TrimmedStrs}
  ELSE {}

StoredValues(section) == CanonicalValues(section) \cup LegacyValues(section)

\* value has the keys and the form parseEditor writes for the section
IsCanonical(section, value) ==
  IF section = "contact"
  THEN /\ DOMAIN value.f \subseteq ContactKeys
       /\ \A k \in DOMAIN value.f : Trim(value.f[k]) = value.f[k]
  ELSE IF section \in ListSections
  THEN \A i \in 1..Len(value.items) :
         DOMAIN value.items[i] = ItemFields(section) \cup {"bullets"}
  ELSE TRUE

OneSectionDoc(section, value) == [s \in AllSections |-> IF s = section THEN value ELSE Undef]

InitRT ==
  /\ currentViewUrl = Absent
  /\ selected \in KnownSections
  /\ \E value \in StoredValues(selected) :
       storage = StorageSet(EmptyStorage, GeneratedItems(OldUrl, OneSectionDoc(selected, value)))
  /\ currentEditingData = JNull
  /\ previousSection = NoSection
  /\ view = EmptyView
  /\ editorShown = FALSE
  /\ actionsShown = FALSE
  /\ timers = 0
  /\ editPending = <<>>
  /\ save = IdleSave
  /\ request = NoRequest
  /\ generate = IdleGenerate
  /\ restoreResult = storage.lastViewUrl
  /\ lastEvent = Event("init", NoSection, "none")
  /\ nEvents = 0

NextRT ==
  \/ RestoreState
  \/ EditClick
  \/ EditLoaded
  \/ TimerFire
  \/ SaveClick
  \/ SaveFetch
  \/ SaveResponse

SpecRT == InitRT /\ [][NextRT]_vars

\* V as the round trip may change it: empty-string contact fields omitted,
\* blank bullets removed
DropBlankBullets(item) == [item EXCEPT !.bullets = SelectSeq(@, NotBlank)]

Normalized(section, value) ==
  IF section = "contact"
  THEN VObj([k \in {x \in DOMAIN value.f : value.f[x] # <<>>} |-> value.f[k]])
  ELSE IF section \in ListSections
  THEN VList([i \in 1..Len(value.items) |-> DropBlankBullets(value.items[i])])
  ELSE value

\* C8: for every known section type and canonical value V, parsing the view
\* rendered from V with no user change returns V, up to the omission of
\* empty-string contact fields and the removal of blank bullets.
C8_RoundTrip ==
  (lastEvent.op = "saveClick" /\ IsCanonical(selected, storage.lastResumeData[selected]))
    => currentEditingData[selected] = Normalized(selected, storage.lastResumeData[selected])

\* the parse of the view of the section the editor shows
ParsedSectionValue == currentEditingData[selected]

\* item[key] || item[alias] || ''
FieldOrAlias(item, key, alias) ==
  IF key \in DOMAIN item /\ item[key] # <<>> THEN item[key]
  ELSE IF alias \in DOMAIN item THEN item[alias]
  ELSE <<>>

\* the open step has rendered section; the save click is parsing its view
RendersSection(section) == lastEvent'.op \in OpenOps /\ selected' = section
ParsesAtSave(section) == lastEvent'.op = "saveClick" /\ selected = section

\* C13: for every experience entry the rendered role field holds role when it
\* is non-empty and otherwise title, the rendered dates field holds dates when
\* non-empty and otherwise date, and the parsed entry has exactly the keys
\* company, role, dates, location and bullets.
C13_ExperienceAliases ==
  [][/\ RendersSection("experience")
        => LET items == currentEditingData'["experience"].items
           IN /\ Len(view'.blocks) = Len(items)
              /\ \A i \in 1..Len(items) :
                   /\ view'.blocks[i].inputs["item-role"]
                        = FieldOrAlias(items[i], "role", "title")
                   /\ view'.blocks[i].inputs["item-dates"]
                        = FieldOrAlias(items[i], "dates", "date")
     /\ ParsesAtSave("experience")
        => \A i \in 1..Len(currentEditingData'["experience"].items) :
             DOMAIN currentEditingData'["experience"].items[i]
               = {"company", "role", "dates", "location", "bullets"}]_vars

\* C14: a leadership entry with no role but a title is rendered with the
\* title in the role field, and the parse of that view has role equal to the
\* title.
C14_LeadershipAlias ==
  [][ParsesAtSave("leadership")
       => \A i \in 1..Len(currentEditingData["leadership"].items) :
            LET item == currentEditingData["leadership"].items[i]
            IN ("role" \notin DOMAIN item /\ "title" \in DOMAIN item)
                 => /\ view.blocks[i].inputs["item-role"] = item.title
                    /\ currentEditingData'["leadership"].items[i].role = item.title]_vars

\* the text has a character that is not whitespace
HasVisibleText(b) == \E k \in 1..Len(b) : ~IsWs(b[k])

\* C15: the bullets parse returns for an entry are exactly the bullet rows of
\* its block whose text is neither empty nor whitespace only, in view order
\* and unchanged; no bullet of the committed section is blank.
C15_BulletsFiltered ==
  (lastEvent.op = "saveClick" /\ selected \in ListSections)
    => /\ Len(ParsedSectionValue.items) = Len(view.blocks)
       /\ \A i \in 1..Len(view.blocks) :
            /\ ParsedSectionValue.items[i].bullets
                 = SelectSeq(view.blocks[i].bullets, HasVisibleText)
            /\ \A j \in 1..Len(ParsedSectionValue.items[i].bullets) :
                 HasVisibleText(ParsedSectionValue.items[i].bullets[j])

\* a block with a whitespace-only row followed by a row with text was parsed,
\* and the entry holds the second row only
C15_Witness ==
  /\ lastEvent.op = "saveClick"
  /\ selected \in ListSections
  /\ \E i \in 1..Len(view.blocks) :
       LET rows == view.blocks[i].bullets
       IN /\ Len(rows) = 2
          /\ rows[1] # <<>>
          /\ ~HasVisibleText(rows[1])
          /\ HasVisibleText(rows[2])
          /\ ParsedSectionValue.items[i].bullets = <<rows[2]>>

\* t is s without its leading and trailing whitespace
IsTrimOf(t, s) ==
  \E i \in 0..Len(s) :
    /\ i + Len(t) <= Len(s)
    /\ SubSeq(s, i + 1, i + Len(t)) = t
    /\ \A k \in 1..i : IsWs(s[k])
    /\ \A k \in (i + Len(t) + 1)..Len(s) : IsWs(s[k])
    /\ t # <<>> => (~IsWs(t[1]) /\ ~IsWs(t[Len(t)]))

\* C16: the parse of the contact section has keys among location, email,
\* phone, linkedin_url, portfolio_url and github: exactly the fields of the
\* view that are not empty after trimming, each with its trimmed value; the
\* linkedin_url and portfolio_url fields are rendered from the legacy keys
\* linkedin and portfolio when the stored value has no text under the new key,
\* and the legacy keys are not written.
C16_ContactParse ==
  [][/\ ParsesAtSave("contact")
        => LET parsed == currentEditingData'["contact"].f
           IN /\ DOMAIN parsed \subseteq ContactKeys
              /\ \A i \in 1..Len(view.contact) :
                   LET field == view.contact[i]
                   IN IF HasVisibleText(field.value)
                      THEN /\ field.key \in DOMAIN parsed
                           /\ IsTrimOf(parsed[field.key], field.value)
                      ELSE field.key \notin DOMAIN parsed
     /\ RendersSection("contact")
        => LET stored == currentEditingData'["contact"].f
           IN \A i \in 1..Len(view'.contact) :
                /\ view'.contact[i].key = "linkedin_url"
                     => view'.contact[i].value
                          = InputValue(FieldOrAlias(stored, "linkedin_url", "linkedin"))
                /\ view'.contact[i].key = "portfolio_url"
                     => view'.contact[i].value
                          = InputValue(FieldOrAlias(stored, "portfolio_url", "portfolio"))]_vars

\* a contact view with a field that has text after leading whitespace was
\* parsed
C16_Witness ==
  /\ lastEvent.op = "saveClick"
  /\ selected = "contact"
  /\ \E i \in 1..Len(view.contact) :
       /\ HasVisibleText(view.contact[i].value)
       /\ IsWs(view.contact[i].value[1])
       /\ view.contact[i].key \in DOMAIN ParsedSectionValue.f

\* ------------------------------------------------------ emptying a section
\* The persisted document holds one known section with a value that is not
\* empty; the user opens the editor, moves between the default section and
\* that section, edits or clears the view, and saves.
SampleValue(section) ==
  IF section = "summary" THEN VStr(<<"a">>)
  ELSE IF section = "contact" THEN VObj([k \in {"email"} |-> <<"a">>])
  ELSE IF section = "skills" THEN VMap(<<[k |-> <<"L">>, v |-> <<"p">>]>>)
  ELSE VList(<<CanonicalItem(section, "dates", <<"a">>, <<<<"a">>>>)>>)

InitEdit ==
  /\ currentViewUrl = Absent
  /\ selected = DefaultSection
  /\ \E section \in KnownSections :
       storage = StorageSet(EmptyStorage,
                            GeneratedItems(OldUrl, OneSectionDoc(section, SampleValue(section))))
  /\ currentEditingData = JNull
  /\ previousSection = NoSection
  /\ view = EmptyView
  /\ editorShown = FALSE
  /\ actionsShown = FALSE
  /\ timers = 0
  /\ editPending = <<>>
  /\ save = IdleSave
  /\ request = NoRequest
  /\ generate = IdleGenerate
  /\ restoreResult = storage.lastViewUrl
  /\ lastEvent = Event("init", NoSection, "none")
  /\ nEvents = 0

\* the sections the document holds
HeldSections(doc) == {s \in DOMAIN doc : doc[s] # Undef}

\* the user picks the default section or a section the persisted document holds
NavigateHeld ==
  \E b \in HeldSections(storage.lastResumeData) \cup {DefaultSection} : SelectSection(b)

\* the views the user gets by deleting the text of one field
ClearedViews(v) ==
  {[v EXCEPT !.texts[id] = <<>>] : id \in DOMAIN v.texts}
  \cup {[v EXCEPT !.contact[i].value = <<>>] : i \in 1..Len(v.contact)}

\* the user deletes the text of a field
ClearText ==
  /\ EditorControlsUsable
  /\ Spend
  /\ \E v \in ClearedViews(view) : v # view /\ view' = v
  /\ lastEvent' = Event("editView", NoSection, "none")
  /\ UNCHANGED <<currentViewUrl, storage, currentEditingData, previousSection, selected,
                 editorShown, actionsShown, timers, editPending, save, request,
                 generate, restoreResult>>

NextEdit ==
  \/ RestoreState
  \/ EditClick
  \/ EditLoaded
  \/ TimerFire
  \/ NavigateHeld
  \/ EditView
  \/ ClearText
  \/ SaveClick
  \/ SaveFetch
  \/ SaveResponse

SpecEdit == InitEdit /\ [][NextEdit]_vars

\* the editor with the scheduling of the save handler's continuations: the
\* callback of the lastCompany read runs once the read has completed, and the
\* handler resumes once the service has answered or the request has failed
SpecEditFair == SpecEdit /\ WF_vars(SaveFetch) /\ WF_vars(SaveResponse)

\* the view of section has no entry, no category, no text in any field
ViewIsEmpty(section) ==
  IF section = "summary" THEN view.texts["edit_summary_text"] = <<>>
  ELSE IF section = "contact" THEN \A i \in 1..Len(view.contact) : view.contact[i].value = <<>>
  ELSE view.blocks = <<>>

\* the empty string, the empty mapping, the empty list
EmptyValue(section) ==
  IF section = "summary" THEN VStr(<<>>)
  ELSE IF section = "contact" THEN VObj(<<>>)
  ELSE IF section = "skills" THEN VMap(<<>>)
  ELSE VList(<<>>)

\* C19: when the view of a known section holds no entry, no category or no
\* text, a navigation or save stores the empty list, the empty mapping or the
\* empty string in the document in place of the previous value.
C19_EmptyResultOverwrites ==
  [][\A section \in KnownSections :
       (Parses(section) /\ ViewIsEmpty(section))
         => currentEditingData'[section] = EmptyValue(section)]_vars

\* a navigation or save has replaced the stored, non-empty value of a section
\* by the empty value of its type
C19_Witness ==
  /\ lastEvent.op \in {"change", "saveClick"}
  /\ lastEvent.sec \in KnownSections
  /\ storage.lastResumeData[lastEvent.sec] = SampleValue(lastEvent.sec)
  /\ currentEditingData[lastEvent.sec] = EmptyValue(lastEvent.sec)

\* C30: every save that was started finishes, and the step that finishes it,
\* a success or any failure, leaves the save control enabled with the label
\* it had before the click.
C30_SaveFinishesAndRestoresControl ==
  /\ (save.pc # "idle") ~> (save.pc = "idle" /\ ~save.disabled /\ save.label = SaveLabel)
  /\ [][/\ lastEvent'.op = "saveClick" => (save'.disabled /\ save'.label = BusyLabel)
        /\ lastEvent'.op \in {"saveSuccess", "saveFailed"}
           => (save.pc = "fetch" /\ ~save'.disabled /\ save'.label = SaveLabel)]_vars

\* a save has finished with a failure that raises no alert, and the control
\* is enabled under its label again
C30_Witness ==
  /\ lastEvent.op = "saveFailed"
  /\ lastEvent.res = "silent"
  /\ save.pc = "idle"
  /\ ~save.disabled
  /\ save.label = SaveLabel
  /\ editorShown

\* ------------------------------------------ navigation on the drawn values
\* the section the user visits between two views of section
AwaySection(section) == IF section = DefaultSection THEN "contact" ELSE DefaultSection

\* the user picks a section the persisted document holds, or the section
\* visited in between
NavigateKnown ==
  LET held == HeldSections(storage.lastResumeData)
  IN \E b \in held \cup {AwaySection(x) : x \in held} : SelectSection(b)

NextNav ==
  \/ NextRT
  \/ NavigateKnown

SpecNav == InitRT /\ [][NextNav]_vars

\* parseEditor(section) on the view renderEditor(section, value) builds
RoundTrip(section, value) == parseEditor(section, renderEditor(section, value), JNull)

\* C31: when the document's value of a known section is the parse of the
\* view rendered from the persisted value, and the view shows that value
\* unedited, the navigation or save that parses the view leaves the value
\* unchanged.
C31_RoundTripIdempotent ==
  [][\A section \in KnownSections :
       (/\ Parses(section)
        /\ currentEditingData[section] = RoundTrip(section, storage.lastResumeData[section])
        /\ view = renderEditor(section, currentEditingData[section]))
         => currentEditingData'[section] = currentEditingData[section]]_vars

====
